---- MODULE Spec2Model ----
(***************************************************************************)
(* State-machine model of the Aquacheck block (src/aquacheck_block.py):    *)
(* the poll cycle (_read_and_notify / _spawn_readers), its triggers        *)
(* (start, the scheduled Job, the read command), the per-probe session     *)
(* (_read) with the ASCII line codec, and the health map                   *)
(* (_set_probe_state).                                                     *)
(*                                                                         *)
(* A line on the wire is a sequence of one-character strings; "CR" and     *)
(* "LF" stand for the two terminator characters.  A sensor value is kept   *)
(* in thousandths (float("-4.999") is -4999), so the comparison with the   *)
(* range limits is exact.                                                  *)
(***************************************************************************)
EXTENDS Integers, Sequences, FiniteSets, TLC

VARIABLES
    lifecycle,      \* "created", "configured", "started", "stopped"
    ports,          \* self.ports: the configured probe names, in dict order
    active,         \* self._active
    probe_states,   \* self._probe_states: name -> "True"/"False"/"None"/"absent"
    reader_jobs,    \* self._reader_jobs: sequence of jobs, each "scheduled"/"cancelled"
    readings,       \* self._readings: dict as a sequence of records, insertion order
    cycle,          \* per caller thread: position in _read_and_notify
    sess,           \* per caller thread and probe: the worker thread running _read
    signals,        \* the list given to notify_signals since the last cycle began
    cycle_exit,     \* how the last cycle left _read_and_notify, "none" while one runs
    readResult,     \* what the last read command logged
    status_logged   \* the Status lines the last step wrote to the log

vars == <<lifecycle, ports, active, probe_states, reader_jobs, readings,
          cycle, sess, signals, cycle_exit, readResult, status_logged>>

----------------------------------------------------------------------------
(* Configuration and threads *)

\* The block's default configuration: one probe.
DefaultProbes == <<"Zone X">>

\* The configuration of the test case: two probes, in configured order.
TestProbes == <<"Test Zone 1", "Test Zone 2">>

Range(f) == {f[i] : i \in DOMAIN f}

Probes == Range(DefaultProbes) \cup Range(TestProbes)

\* The threads that can run _read_and_notify: start(), the scheduler's Job,
\* and the handler of the read command.
Callers == {"start", "job", "command"}

----------------------------------------------------------------------------
(* Characters and lines *)

Digits == {"0", "1", "2", "3", "4", "5", "6", "7", "8", "9"}

DigitVal(ch) ==
    CASE ch = "0" -> 0 [] ch = "1" -> 1 [] ch = "2" -> 2 [] ch = "3" -> 3
      [] ch = "4" -> 4 [] ch = "5" -> 5 [] ch = "6" -> 6 [] ch = "7" -> 7
      [] ch = "8" -> 8 [] ch = "9" -> 9

Whitespace == {"CR", "LF", " "}

\* str.rstrip(): drop the trailing whitespace.
RECURSIVE rstrip(_)
rstrip(s) ==
    IF s = <<>> THEN <<>>
    ELSE IF s[Len(s)] \in Whitespace THEN rstrip(SubSeq(s, 1, Len(s) - 1))
    ELSE s

\* The literal the identify response must contain.
MARKER == <<"A", "q", "u", "a", "C", "h", "c", "k">>

\* Whether `sub` occurs in s: response.split('AquaChck', 1) gives two parts
\* exactly then, and one part (the unpacking raises ValueError) otherwise.
Contains(s, sub) ==
    \E i \in 1..(Len(s) - Len(sub) + 1) : SubSeq(s, i, i + Len(sub) - 1) = sub

\* int(s) of a string of decimal digits; IsInt says whether int(s) returns.
IsInt(s) == s # <<>> /\ \A i \in 1..Len(s) : s[i] \in Digits

RECURSIVE Int_(_)
Int_(s) == IF s = <<>> THEN 0 ELSE 10 * Int_(SubSeq(s, 1, Len(s) - 1)) + DigitVal(s[Len(s)])

\* response[0:3] and response[-1]
Slice03(s) == SubSeq(s, 1, IF Len(s) < 3 THEN Len(s) ELSE 3)
LastChar(s) == <<s[Len(s)]>>

\* The M0/M1 response parses: int(response[0:3]) and int(response[-1]) return.
MParses(resp) == resp # <<>> /\ IsInt(Slice03(resp)) /\ IsInt(LastChar(resp))
MDelay(resp) == Int_(Slice03(resp))
MNumSensors(resp) == Int_(LastChar(resp))

\* Length of the longest run of digits of s that starts at position i.
RECURSIVE DigitRun(_, _)
DigitRun(s, i) ==
    IF i <= Len(s) /\ s[i] \in Digits THEN 1 + DigitRun(s, i + 1) ELSE 0

\* Length of the match of [\+\-][0-9]+\.[0-9]+ at position i of s, 0 if none.
MatchAt(s, i) ==
    IF i <= Len(s) /\ s[i] \in {"+", "-"}
    THEN LET n1 == DigitRun(s, i + 1)
             dot == i + 1 + n1
         IN  IF n1 > 0 /\ dot <= Len(s) /\ s[dot] = "."
             THEN LET n2 == DigitRun(s, dot + 1)
                  IN  IF n2 > 0 THEN 1 + n1 + 1 + n2 ELSE 0
             ELSE 0
    ELSE 0

\* re.findall('[\+\-][0-9]+\.[0-9]+', s) scanning from position i: the
\* non-overlapping matches, left to right.
RECURSIVE findallFrom(_, _)
findallFrom(s, i) ==
    IF i > Len(s) THEN <<>>
    ELSE LET n == MatchAt(s, i)
         IN  IF n > 0 THEN <<SubSeq(s, i, i + n - 1)>> \o findallFrom(s, i + n)
             ELSE findallFrom(s, i + 1)

findall(s) == findallFrom(s, 1)

\* Position of the "." in a matched value.
RECURSIVE DotPos(_, _)
DotPos(v, i) == IF v[i] = "." THEN i ELSE DotPos(v, i + 1)

\* Thousandths per unit: values carry at most three fractional digits.
Scale == 10 * 10 * 10

RECURSIVE Pow10(_)
Pow10(n) == IF n = 0 THEN 1 ELSE 10 * Pow10(n - 1)

\* float(value) of a matched value, in thousandths.
Float(v) ==
    LET d == DotPos(v, 1)
        ip == SubSeq(v, 2, d - 1)
        fp == SubSeq(v, d + 1, Len(v))
        mag == Int_(ip) * Scale + Int_(fp) * Pow10(3 - Len(fp))
    IN  IF v[1] = "-" THEN 0 - mag ELSE mag

\* The limits of `assert -5 < value < 120`.
RANGE_LOW == -5
RANGE_HIGH == 120

InRange_mut(x) == RANGE_LOW * Scale <= x /\ x <= RANGE_HIGH * Scale
InRange(x) == RANGE_LOW * Scale < x /\ x < RANGE_HIGH * Scale

----------------------------------------------------------------------------
(* What a port can deliver to readline() *)

NOTHING == <<>>                      \* readline() timed out: b''
CRLF == <<"CR", "LF">>               \* a bare line: the attention response

ID_OK == <<"0", "1", "3", "A", "q", "u", "a", "C", "h", "c", "k", "A", "C", "H",
           "S", "D", "I", "0", "4", "3", "S", "0", "1", "CR", "LF">>
ID_BAD == <<"0", "1", "3", "A", "q", "u", "a", "CR", "LF">>

M_0_1 == <<"0", "0", "0", "1", "CR", "LF">>     \* no delay, 1 sensor
M_1_1 == <<"0", "0", "1", "1", "CR", "LF">>     \* 1 s delay, 1 sensor
M_2_2 == <<"0", "0", "2", "2", "CR", "LF">>     \* 2 s delay, 2 sensors

D_ONE == <<"+", "1", ".", "5", "CR", "LF">>
D_TWO == <<"-", "4", ".", "9", "9", "9", "+", "1", "1", "9", ".", "9", "9", "9">>
D_LOW == <<"-", "5", ".", "0", "CR", "LF">>
D_HIGH == <<"+", "1", "2", "0", ".", "0", "0", "CR", "LF">>
D_MIXED == <<"+", "1", "2", "1", ".", "5", "-", "6", ".", "2", "5", "+", "2", ".", "0">>
D_UNSIGNED == <<"1", ".", "5", ",", "CR", "LF">>

\* What the ports answer in the runs that interleave cycles: a port may
\* fail to open, moisture values may be out of range, the rest is in order.
SmallWire ==
    [open |-> BOOLEAN,
     id   |-> {ID_OK},
     m0   |-> {M_0_1, M_1_1},
     m1   |-> {M_0_1},
     dm   |-> {D_ONE, D_LOW},
     dt   |-> {D_ONE}]

\* What the ports answer in the runs of one cycle over two probes: each way
\* a session can fail (the port does not open, the identify response lacks
\* the marker, a measurement response does not parse, a value is rejected)
\* next to the answers that are in order.
FaultWire ==
    [open |-> BOOLEAN,
     id   |-> {ID_OK, ID_BAD},
     m0   |-> {M_0_1, NOTHING},
     m1   |-> {M_0_1},
     dm   |-> {D_ONE, D_LOW},
     dt   |-> {D_ONE}]

\* What the ports answer in the runs of one session at a time.
FullWire ==
    [open |-> BOOLEAN,
     id   |-> {ID_OK, ID_BAD, NOTHING},
     m0   |-> {M_0_1, M_2_2, NOTHING},
     m1   |-> {M_0_1, M_2_2, NOTHING},
     dm   |-> {D_ONE, D_TWO, D_LOW, D_HIGH, D_MIXED, D_UNSIGNED, CRLF, NOTHING},
     dt   |-> {D_ONE, D_TWO, D_LOW, D_HIGH, D_MIXED, D_UNSIGNED, CRLF, NOTHING}]

----------------------------------------------------------------------------
(* The session: Aquacheck._read, lines 95-225, on its local variables *)

\* No attention response is on its way.
NO_ATTENTION == 0 - 1

\* The locals of _read.  attention_due counts the reads that still time out
\* before the attention response is there to be read (0: it is in the input
\* buffer); moisture_sensors keeps the count the M0 response declared, which
\* num_sensors holds until the M1 response replaces it; attention_in_window records that it was due within the declared
\* delay; early_empty records a D response that was empty before the declared
\* count was reached.
NoSess ==
    [pc |-> "none", exc |-> "none", at |-> "none", response |-> <<>>,
     delay |-> 0, num_sensors |-> 0, moisture_sensors |-> 0, r |-> 0,
     attention_due |-> NO_ATTENTION, attention_in_window |-> FALSE,
     early_empty |-> FALSE,
     moisture_values |-> <<>>, moisture_error |-> FALSE,
     temperature_values |-> <<>>, temp_error |-> FALSE]

\* spawn(self._read, name, port): the thread is about to open its port.
NewSess == [NoSess EXCEPT !.pc = "open"]

\* An exception leaves _read: nothing after the raising line runs.
Raise(s, e, response) ==
    [NoSess EXCEPT !.pc = "raised", !.exc = e, !.at = s.pc, !.response = response]

\* port.readline(): while the probe is still measuring nothing comes and the
\* read times out; the attention response comes when it is due; after that
\* the probe answers the command with `line`.
readline(s, line) ==
    IF s.attention_due = 0 THEN <<"CR", "LF">>
    ELSE IF s.attention_due > 0 THEN <<>>
    ELSE line

\* The locals after a readline().
AfterRead(s) ==
    [s EXCEPT !.attention_due = IF @ > 0 THEN @ - 1 ELSE NO_ATTENTION]

\* The try/except of one value and the loop over the matches of a line:
\* the accepted values in order, and whether one was rejected.
RECURSIVE Accept(_)
Accept(values) ==
    IF values = <<>> THEN [vals |-> <<>>, err |-> FALSE]
    ELSE LET x == Float(Head(values))
             rest == Accept(Tail(values))
         IN  IF InRange(x)
             THEN [vals |-> <<x>> \o rest.vals, err |-> rest.err]
             ELSE [vals |-> rest.vals, err |-> TRUE]

\* with serial.Serial(**params) as port
S_open(s, ok) ==
    IF ok THEN [s EXCEPT !.pc = "ident"] ELSE Raise(s, "SerialException", <<>>)

S_identify_mut(s, line) ==
    [AfterRead(s) EXCEPT !.pc = "m0", !.response = rstrip(readline(s, line))]

\* 0I!: the response must split at the marker
S_identify(s, line) ==
    LET response == rstrip(readline(s, line))
    IN  IF Contains(response, MARKER)
        THEN [AfterRead(s) EXCEPT !.pc = "m0", !.response = response]
        ELSE Raise(s, "ValueError", response)

EndMoisture_mut(s) == [s EXCEPT !.pc = "m1", !.r = 0]

\* The moisture count check, after the D loop.
EndMoisture(s) ==
    [s EXCEPT !.moisture_error = @ \/ Len(s.moisture_values) # s.num_sensors,
              !.pc = "m1", !.r = 0]

\* for r in range(num_sensors): entered with r = 0
StartMoisture(s) ==
    IF s.num_sensors = 0 THEN EndMoisture(s) ELSE [s EXCEPT !.pc = "dm", !.r = 0]

\* 0M0!: delay and sensor count
S_m0(s, line) ==
    LET response == rstrip(readline(s, line))
    IN  IF ~MParses(response) THEN Raise(s, "ValueError", response)
        ELSE LET t == [AfterRead(s) EXCEPT !.response = response,
                                           !.delay = MDelay(response),
                                           !.num_sensors = MNumSensors(response),
                                           !.moisture_sensors = MNumSensors(response)]
             IN  IF t.delay > 0 THEN [t EXCEPT !.pc = "sleep"] ELSE StartMoisture(t)

\* When the attention response can come after an M0 response with `delay`:
\* with one of the reads of the window (0 .. delay - 1 timeouts of 1 s before
\* it), after the window (delay timeouts), or never.
AttentionArrivals(delay) == (0..delay) \cup {NO_ATTENTION}

\* time.sleep(delay); the probe emits its attention response when ready
S_sleep(s, due) ==
    [s EXCEPT !.pc = "attn", !.attention_due = due,
              !.attention_in_window = (due # NO_ATTENTION /\ due < s.delay)]

\* attention_response = port.readline(); empty is logged and ignored
S_attn(s, line) ==
    StartMoisture([AfterRead(s) EXCEPT !.response = readline(s, line)])

\* One pass of the moisture loop: 0D<r>!
S_dm(s, line) ==
    LET response == rstrip(readline(s, line))
        u == [AfterRead(s) EXCEPT !.response = response]
    IN  IF response = <<>>
        THEN EndMoisture([u EXCEPT !.early_empty =
                                      @ \/ Len(s.moisture_values) < s.num_sensors])
        ELSE LET acc == Accept(findall(response))
                 t == [u EXCEPT !.moisture_values = @ \o acc.vals,
                                !.moisture_error = @ \/ acc.err,
                                !.r = @ + 1]
             IN  IF t.r = t.num_sensors THEN EndMoisture(t) ELSE t

EndTemperature_mut(s) == [s EXCEPT !.pc = "fin", !.r = 0]

\* The temperature count check, after the D loop.
EndTemperature(s) ==
    [s EXCEPT !.temp_error = @ \/ Len(s.temperature_values) # s.num_sensors,
              !.pc = "fin", !.r = 0]

StartTemperature(s) ==
    IF s.num_sensors = 0 THEN EndTemperature(s) ELSE [s EXCEPT !.pc = "dt", !.r = 0]

\* 0M1!: the delay is parsed and not used
S_m1(s, line) ==
    LET response == rstrip(readline(s, line))
    IN  IF ~MParses(response) THEN Raise(s, "ValueError", response)
        ELSE StartTemperature([AfterRead(s) EXCEPT !.response = response,
                                                   !.delay = MDelay(response),
                                                   !.num_sensors = MNumSensors(response)])

\* One pass of the temperature loop: 0D<r>!
S_dt(s, line) ==
    LET response == rstrip(readline(s, line))
        u == [AfterRead(s) EXCEPT !.response = response]
    IN  IF response = <<>>
        THEN EndTemperature([u EXCEPT !.early_empty =
                                        @ \/ Len(s.temperature_values) < s.num_sensors])
        ELSE LET acc == Accept(findall(response))
                 t == [u EXCEPT !.temperature_values = @ \o acc.vals,
                                !.temp_error = @ \/ acc.err,
                                !.r = @ + 1]
             IN  IF t.r = t.num_sensors THEN EndTemperature(t) ELSE t

\* The thread after line 233: its locals are gone, what it did remains.
Done(s) ==
    [NoSess EXCEPT !.pc = "done",
                   !.moisture_values = s.moisture_values,
                   !.moisture_error = s.moisture_error,
                   !.temperature_values = s.temperature_values,
                   !.temp_error = s.temp_error]

\* The next positions of a session over the answers W allows.
Succ(s, W) ==
    CASE s.pc = "open"  -> {S_open(s, ok) : ok \in W.open}
      [] s.pc = "ident" -> {S_identify(s, l) : l \in W.id}
      [] s.pc = "m0"    -> {S_m0(s, l) : l \in W.m0}
      [] s.pc = "sleep" -> {S_sleep(s, due) : due \in AttentionArrivals(s.delay)}
      [] s.pc = "attn"  -> {S_attn(s, l) : l \in {NOTHING}}
      [] s.pc = "dm"    -> {S_dm(s, l) : l \in W.dm}
      [] s.pc = "m1"    -> {S_m1(s, l) : l \in W.m1}
      [] s.pc = "dt"    -> {S_dt(s, l) : l \in W.dt}
      [] OTHER          -> {}

\* Every position a session can reach from the positions in `todo`.
RECURSIVE Reach(_, _, _)
Reach(todo, seen, W) ==
    IF todo = {} THEN seen
    ELSE LET new == (UNION {Succ(s, W) : s \in todo}) \ seen
         IN  Reach(new, seen \cup new, W)

\* Where _read can stand when the lines before line 226 are done.
Ends(W) == {s \in Reach({NewSess}, {NewSess}, W) : s.pc \in {"fin", "raised"}}

\* The same, without the locals that end with the thread.
Settled(t) == IF t.pc = "raised" THEN t ELSE [Done(t) EXCEPT !.pc = "fin"]

SmallEnds == {Settled(t) : t \in Ends(SmallWire)}

FaultEnds == {Settled(t) : t \in Ends(FaultWire)}

----------------------------------------------------------------------------
(* The shared state: the health map and the readings buffer *)

\* _set_probe_state: a missing key is the initial state and counts as a change.
StateChange(ps, name, state) == ps[name] = "absent" \/ state # ps[name]

_set_probe_state(ps, name, state) ==
    IF StateChange(ps, name, state) THEN [ps EXCEPT ![name] = state] ELSE ps

\* The wording of a state in the log and in current_state().
StatusLine(state) ==
    IF state = "True" THEN "Ready"
    ELSE IF state = "None" THEN "Interface Error"
    ELSE "Protocol Error"

\* What _set_probe_state writes to the log: a Status line on a state change,
\* nothing otherwise.
StatusLog(ps, name, state) ==
    IF StateChange(ps, name, state)
    THEN <<[name |-> name, line |-> StatusLine(state)]>>
    ELSE <<>>

\* current_state(): the health map `ps` as the command reports it.
current_state(ps) ==
    [name \in {n \in Probes : ps[n] # "absent"} |->
        IF ps[name] = "True" THEN "Ready"
        ELSE IF ps[name] = "None" THEN "Interface Error"
        ELSE "Protocol Error"]

\* Position of a key in a dict kept as a sequence, 0 when it is missing.
IndexOf(d, name) ==
    IF \E i \in 1..Len(d) : d[i].name = name
    THEN CHOOSE i \in 1..Len(d) : d[i].name = name
    ELSE 0

\* d[name] = value: a new key goes last, an old key keeps its place.
DictPut(d, name, rec) ==
    IF IndexOf(d, name) = 0 THEN Append(d, rec)
    ELSE [d EXCEPT ![IndexOf(d, name)] = rec]

\* The entry line 226 stores for a session.
ReadingOf(name, s) ==
    [name |-> name,
     moisture_values |-> s.moisture_values,
     temperature_values |-> s.temperature_values]

OutcomeOf_mut(s) == IF s.temp_error THEN "False" ELSE "True"

\* The state lines 230-233 give a session.
OutcomeOf(s) == IF s.moisture_error \/ s.temp_error THEN "False" ELSE "True"

\* Lines 255-262: one signal per entry of the buffer, in the buffer's order.
SignalList(buffer) == [i \in 1..Len(buffer) |-> buffer[i]]

----------------------------------------------------------------------------
(* The worker threads *)

\* One line of _read before line 226, with the answers of W.
ReadStep(c, p, W) ==
    /\ \E t \in Succ(sess[c][p], W) : sess' = [sess EXCEPT ![c][p] = t]
    /\ status_logged' = <<>>
    /\ UNCHANGED <<lifecycle, ports, active, probe_states, reader_jobs, readings,
                   cycle, signals, cycle_exit, readResult>>

\* Lines 226-233: store the reading, set the probe's state; the with block
\* closes the port and the thread ends.
Finish(c, p) ==
    /\ sess[c][p].pc = "fin"
    /\ readings' = DictPut(readings, p, ReadingOf(p, sess[c][p]))
    /\ probe_states' = _set_probe_state(probe_states, p, OutcomeOf(sess[c][p]))
    /\ status_logged' = StatusLog(probe_states, p, OutcomeOf(sess[c][p]))
    /\ sess' = [sess EXCEPT ![c][p] = Done(sess[c][p])]
    /\ UNCHANGED <<lifecycle, ports, active, reader_jobs, cycle, signals,
                   cycle_exit, readResult>>

\* The whole of _read in one step: lines 95-225 touch nothing but the port
\* and locals and end at one of `ends`; lines 226-233 follow unless the
\* thread raised.
ReadAll(c, p, ends) ==
    /\ sess[c][p].pc = "open"
    /\ \E t \in ends :
          IF t.pc = "raised"
          THEN /\ sess' = [sess EXCEPT ![c][p] = t]
               /\ status_logged' = <<>>
               /\ UNCHANGED <<readings, probe_states>>
          ELSE /\ readings' = DictPut(readings, p, ReadingOf(p, t))
               /\ probe_states' = _set_probe_state(probe_states, p, OutcomeOf(t))
               /\ status_logged' = StatusLog(probe_states, p, OutcomeOf(t))
               /\ sess' = [sess EXCEPT ![c][p] = Done(t)]
    /\ UNCHANGED <<lifecycle, ports, active, reader_jobs, cycle, signals,
                   cycle_exit, readResult>>

----------------------------------------------------------------------------
(* The poll cycle: _read_and_notify and _spawn_readers *)

\* Cycles that may be in _read_and_notify at once in the runs that
\* interleave them.
MaxOverlap == 2

Running == {c \in Callers : cycle[c] = "running"}

\* Lines 252-254 and 267-270: set the flag, clear the buffer, spawn a reader
\* for every entry of self.ports.
Begin(c) ==
    /\ cycle[c] = "idle"
    /\ Cardinality(Running) < MaxOverlap
    /\ active' = TRUE
    /\ readings' = <<>>
    /\ cycle' = [cycle EXCEPT ![c] = "running"]
    /\ sess' = [sess EXCEPT ![c] =
                   [p \in Probes |-> IF p \in Range(ports) THEN NewSess ELSE NoSess]]
    /\ signals' = <<>>
    /\ cycle_exit' = "none"
    /\ status_logged' = <<>>

Join_mut(c) ==
    /\ cycle[c] = "running"
    /\ \A p \in Range(ports) : sess[c][p].pc \in {"done", "raised"}
    /\ \E raises \in BOOLEAN :
          IF raises \/ \E p \in Range(ports) : sess[c][p].pc = "raised"
          THEN /\ cycle_exit' = "raised"
               /\ UNCHANGED <<signals, active>>
          ELSE /\ cycle_exit' = "notified"
               /\ signals' = SignalList(readings)
               /\ active' = FALSE
    /\ cycle' = [cycle EXCEPT ![c] = "idle"]
    /\ sess' = [sess EXCEPT ![c] = [p \in Probes |-> NoSess]]
    /\ status_logged' = <<>>
    /\ UNCHANGED <<lifecycle, ports, probe_states, reader_jobs, readings, readResult>>

\* Lines 271-277 and 255-264: join every reader, build the signals, notify,
\* clear the flag.  notify_signals is the host's: it returns or it raises.
Join(c) ==
    /\ cycle[c] = "running"
    /\ \A p \in Range(ports) : sess[c][p].pc \in {"done", "raised"}
    /\ \E raises \in BOOLEAN :
          IF raises
          THEN /\ cycle_exit' = "raised"
               /\ UNCHANGED <<signals, active>>
          ELSE /\ cycle_exit' = "notified"
               /\ signals' = SignalList(readings)
               /\ active' = FALSE
    /\ cycle' = [cycle EXCEPT ![c] = "idle"]
    /\ sess' = [sess EXCEPT ![c] = [p \in Probes |-> NoSess]]
    /\ status_logged' = <<>>
    /\ UNCHANGED <<lifecycle, ports, probe_states, reader_jobs, readings, readResult>>

----------------------------------------------------------------------------
(* The block's operations *)

\* configure: self.ports gets the configured probes.
configure(probes) ==
    /\ lifecycle = "created"
    /\ lifecycle' = "configured"
    /\ ports' = probes
    /\ status_logged' = <<>>
    /\ UNCHANGED <<active, probe_states, reader_jobs, readings, cycle, sess,
                   signals, cycle_exit, readResult>>

\* start(): schedule the repeating Job, then take a reading now.
start ==
    /\ lifecycle = "configured"
    /\ lifecycle' = "started"
    /\ reader_jobs' = Append(reader_jobs, "scheduled")
    /\ Begin("start")
    /\ UNCHANGED <<ports, probe_states, readResult>>

\* The scheduler runs the Job's target, _read_and_notify, every interval.
Tick ==
    /\ \E i \in 1..Len(reader_jobs) : reader_jobs[i] = "scheduled"
    /\ Begin("job")
    /\ UNCHANGED <<lifecycle, ports, probe_states, reader_jobs, readResult>>

\* read(): the command is ignored while busy.
read_mut ==
    /\ lifecycle = "started"
    /\ readResult' = "accepted"
    /\ Begin("command")
    /\ UNCHANGED <<lifecycle, ports, probe_states, reader_jobs>>

read ==
    /\ lifecycle = "started"
    /\ cycle["command"] = "idle"
    /\ IF active
       THEN /\ readResult' = "Busy"
            /\ status_logged' = <<>>
            /\ UNCHANGED <<lifecycle, ports, active, probe_states, reader_jobs,
                           readings, cycle, sess, signals, cycle_exit>>
       ELSE /\ readResult' = "accepted"
            /\ Begin("command")
            /\ UNCHANGED <<lifecycle, ports, probe_states, reader_jobs>>

\* stop(): cancel the jobs.  The host calls it once start() has returned.
stop ==
    /\ lifecycle = "started"
    /\ cycle["start"] = "idle"
    /\ lifecycle' = "stopped"
    /\ reader_jobs' = [i \in 1..Len(reader_jobs) |-> "cancelled"]
    /\ status_logged' = <<>>
    /\ UNCHANGED <<ports, active, probe_states, readings, cycle, sess, signals,
                   cycle_exit, readResult>>

----------------------------------------------------------------------------
(* Specifications *)

\* After __init__.
Init ==
    /\ lifecycle = "created"
    /\ ports = <<>>
    /\ active = FALSE
    /\ probe_states = [p \in Probes |-> "absent"]
    /\ reader_jobs = <<>>
    /\ readings = <<>>
    /\ cycle = [c \in Callers |-> "idle"]
    /\ sess = [c \in Callers |-> [p \in Probes |-> NoSess]]
    /\ signals = <<>>
    /\ cycle_exit = "none"
    /\ readResult = "none"
    /\ status_logged = <<>>

Worker == \E c \in Callers, p \in Probes : ReadAll(c, p, SmallEnds)

Cycles == \E c \in Callers : Join(c)

\* The block with the test's two probes, every trigger, and workers that
\* run lines 95-225 in one step.
Next ==
    \/ configure(TestProbes)
    \/ start
    \/ Tick
    \/ read
    \/ stop
    \/ Worker
    \/ Cycles

Spec == Init /\ [][Next]_vars

SessionWorker == \E c \in Callers, p \in Probes : ReadStep(c, p, FullWire) \/ Finish(c, p)

\* The block with its default single probe and a Job interval longer than the
\* run, so that cycles come from start() and the read command one at a time;
\* the worker runs line by line.
SessionNext ==
    \/ configure(DefaultProbes)
    \/ start
    \/ read
    \/ stop
    \/ SessionWorker
    \/ Cycles

SessionSpec == Init /\ [][SessionNext]_vars

FaultWorker == \E c \in Callers, p \in Probes : ReadAll(c, p, FaultEnds)

\* The block with the test's two probes and a Job interval longer than the
\* run: one cycle at a time, each worker ending in any of the ways a session
\* can end.
FaultNext ==
    \/ configure(TestProbes)
    \/ start
    \/ read
    \/ stop
    \/ FaultWorker
    \/ Cycles

FaultSpec == Init /\ [][FaultNext]_vars

----------------------------------------------------------------------------
(* Properties *)

\* The step in which caller c leaves _read_and_notify.
CycleExit(c) == cycle[c] = "running" /\ cycle'[c] = "idle"

\* The step in which caller c leaves _read_and_notify through notify_signals.
CycleNotifies(c) == CycleExit(c) /\ cycle_exit' = "notified"

\* A step of the read command: nothing else changes what the command logged
\* or takes the command's thread into a cycle.
ReadCommandStep ==
    /\ cycle["command"] = "idle"
    /\ readResult' # readResult \/ cycle'["command"] # "idle"

\* C1: poll cycles never overlap, whichever trigger requests them: at most
\* one cycle is in progress in every reachable state.
C1_AtMostOneCycle == Cardinality(Running) <= 1

\* C2: a read command that arrives while the flag is set is logged as Busy
\* and changes no probe's health, not the readings buffer, not the flag,
\* starts no cycle and no worker and notifies nothing.
C2_BusyReadChangesNothing ==
    [][(active /\ ReadCommandStep) =>
          /\ readResult' = "Busy"
          /\ UNCHANGED <<lifecycle, ports, active, probe_states, reader_jobs,
                         readings, cycle, sess, signals, cycle_exit>>]_vars

\* C2's case: a read was rejected while start()'s cycle had stored a reading.
C2_Witness ==
    /\ readResult = "Busy"
    /\ active
    /\ cycle["start"] = "running"
    /\ readings # <<>>

\* C3: whenever a poll cycle exits, normally or through an error raised
\* while notifying, the cycle-in-progress flag is false afterwards.
C3_FlagClearedOnExit ==
    [][\A c \in Callers : CycleExit(c) => active' = FALSE]_vars

\* C4: a probe whose identify response lacks the marker has, after that
\* cycle, health InterfaceError if the response was empty and ProtocolError
\* if it was not.
C4_IdentifyFailureHealth ==
    [][\A c \in Callers, p \in Probes :
          (CycleExit(c) /\ sess[c][p].pc = "raised" /\ sess[c][p].at = "ident")
          => probe_states'[p] = (IF sess[c][p].response = <<>> THEN "None" ELSE "False")]_vars

\* C5: a probe whose serial device could not be opened in a cycle has health
\* InterfaceError after the cycle, and current_state reports Interface Error.
C5_OpenFailureHealth ==
    [][\A c \in Callers, p \in Probes :
          (CycleExit(c) /\ sess[c][p].pc = "raised" /\ sess[c][p].at = "open")
          => /\ probe_states'[p] = "None"
             /\ p \in DOMAIN current_state(probe_states')
             /\ current_state(probe_states')[p] = "Interface Error"]_vars

\* C6: a cycle's notification holds a record only for probes whose session
\* of that cycle ended in Success.
C6_OnlySuccessNotified ==
    [][\A c \in Callers :
          CycleNotifies(c) =>
              \A i \in 1..Len(signals') :
                  /\ sess[c][signals'[i].name].pc = "done"
                  /\ OutcomeOf(sess[c][signals'[i].name]) = "True"]_vars

\* C7: when every configured probe answered identify and delivered its
\* declared number of in-range values, the cycle's notification holds one
\* reading per probe, in configured order, with the values as delivered.
C7_ReadingsInConfiguredOrder ==
    [][\A c \in Callers :
          (/\ CycleNotifies(c)
           /\ \A p \in Range(ports) :
                 sess[c][p].pc = "done" /\ OutcomeOf(sess[c][p]) = "True")
          => signals' = [i \in 1..Len(ports) |-> ReadingOf(ports[i], sess[c][ports[i]])]]_vars

\* C8: an attention response that comes within the delay the M0 response
\* declared has been read before the first D command is sent: reads that
\* time out inside the window are followed by further waiting.
C8_AttentionConsumedBeforeD ==
    \A c \in Callers, p \in Probes :
        (sess[c][p].pc = "dm" /\ sess[c][p].attention_in_window)
        => sess[c][p].attention_due = NO_ATTENTION

\* The values of a D response, parsed, and those strictly inside (-5, 120).
Parsed(response) ==
    [i \in 1..Len(findall(response)) |-> Float(findall(response)[i])]

StrictlyInside(values) ==
    SelectSeq(values, LAMBDA x : RANGE_LOW * Scale < x /\ x < RANGE_HIGH * Scale)

\* C9: in the moisture and in the temperature phase, a D response appends
\* exactly its values strictly inside (-5, 120), in order; a value equal to
\* -5 or 120 or outside is not appended and marks the phase errored.
C9_OpenInterval ==
    [][\A c \in Callers, p \in Probes :
          LET s == sess[c][p]
              t == sess'[c][p]
              all == Parsed(t.response)
          IN  /\ (s.pc = "dm" /\ t # s) =>
                    /\ t.moisture_values = s.moisture_values \o StrictlyInside(all)
                    /\ Len(StrictlyInside(all)) < Len(all) => t.moisture_error
              /\ (s.pc = "dt" /\ t # s) =>
                    /\ t.temperature_values = s.temperature_values \o StrictlyInside(all)
                    /\ Len(StrictlyInside(all)) < Len(all) => t.temp_error]_vars

\* C9's case: -4.999 and 119.999 were accepted as moisture values and -5.0
\* was rejected as a temperature value.
C9_Witness ==
    \E c \in Callers, p \in Probes :
        /\ sess[c][p].moisture_values = <<-4999, 119999>>
        /\ sess[c][p].response = rstrip(D_LOW)
        /\ sess[c][p].temperature_values = <<>>
        /\ sess[c][p].temp_error

C11_CountsMatchDeclared ==
    [][\A c \in Callers, p \in Probes :
          LET s == sess[c][p]
              t == sess'[c][p]
              matches == /\ Len(s.moisture_values) = s.moisture_sensors
                         /\ Len(s.temperature_values) = s.num_sensors
          IN  (s.pc = "fin" /\ t.pc = "done") =>
                 /\ probe_states'[p] = "True" => matches
                 /\ ~matches => probe_states'[p] = "False"]_vars

\* C11's case: a session that declared two moisture sensors and got both
\* values in one D response has set Ready.
C11_Witness ==
    \E c \in Callers, p \in Probes :
        /\ sess[c][p].pc = "done"
        /\ Len(sess[c][p].moisture_values) = 2
        /\ Len(sess[c][p].temperature_values) = 1
        /\ probe_states[p] = "True"

\* The outcome the taxonomy gives a session that ended as t from s: a port
\* that did not open or a probe that did not answer is an Interface Error,
\* other failures are Protocol Errors.
SessionOutcome(s, t) ==
    IF t.pc = "raised"
    THEN IF t.at = "open" \/ t.response = <<>> THEN "None" ELSE "False"
    ELSE OutcomeOf(s)

\* A probe's health before a session: Interface Error until a state was set.
PreviousHealth(p) == IF probe_states[p] = "absent" THEN "None" ELSE probe_states[p]

\* The step in which the session of caller c for probe p ends.
SessionEnds(c, p) ==
    /\ sess[c][p].pc \notin {"none", "done", "raised"}
    /\ sess'[c][p].pc \in {"done", "raised"}

\* C12: a state-change line is logged for a probe in a cycle exactly when the
\* cycle's outcome for the probe differs from the probe's previous health;
\* a cycle with the same outcome as the one before logs nothing.
C12_StateChangeLogged ==
    [][\A c \in Callers, p \in Probes :
          SessionEnds(c, p) =>
              ((status_logged' # <<>>)
                  <=> (SessionOutcome(sess[c][p], sess'[c][p]) # PreviousHealth(p)))]_vars

\* The step in which the session of caller c for probe p calls serial.Serial.
OpensPort(c, p) ==
    /\ sess[c][p].pc = "open"
    /\ sess'[c][p].pc \in {"ident", "raised"}

\* C13: connections persist across cycles: a probe's port is opened only
\* when the probe was never opened or its previous health is Interface
\* Error; a probe that is Ready or in Protocol Error is polled with no new
\* open.
C13_OpenOnlyAfterInterfaceError ==
    [][\A c \in Callers, p \in Probes :
          OpensPort(c, p) => PreviousHealth(p) = "None"]_vars

\* A session that holds an open port: between serial.Serial and the end of
\* the with block.
HoldsPort(s) == s.pc \in {"ident", "m0", "sleep", "attn", "dm", "m1", "dt", "fin"}

\* Nothing of the block is at work: every job is cancelled, no cycle is in
\* _read_and_notify, no worker thread runs and no port is open.
Quiet ==
    /\ \A i \in 1..Len(reader_jobs) : reader_jobs[i] = "cancelled"
    /\ Running = {}
    /\ \A c \in Callers, p \in Probes :
           sess[c][p].pc \in {"none", "done", "raised"} /\ ~HoldsPort(sess[c][p])

\* C14: after stop() has returned the read timer is cancelled, every
\* connection is closed, no worker session is still running (sessions in
\* flight were joined), and no poll cycle starts any more.
C14_StopJoinsAndCloses ==
    [][/\ lifecycle' = "stopped" => Quiet'
       /\ lifecycle = "stopped" =>
              \A c \in Callers : cycle[c] = "idle" => cycle'[c] = "idle"]_vars

\* C15: from configuration onward current_state() maps every configured
\* probe to Ready, Protocol Error or Interface Error, and to Interface Error
\* while no port has been opened yet (no cycle has begun).
C15_EveryProbeHasHealth ==
    \A i \in 1..Len(ports) :
        /\ ports[i] \in DOMAIN current_state(probe_states)
        /\ current_state(probe_states)[ports[i]]
              \in {"Ready", "Protocol Error", "Interface Error"}
        /\ lifecycle = "configured"
              => current_state(probe_states)[ports[i]] = "Interface Error"

\* A worker thread that has been spawned and has not ended.
InFlight(s) == s.pc \notin {"none", "done", "raised"}

\* C16: the health map is written only after all workers of the cycle have
\* rejoined: in a step that changes a probe's health entry no session is
\* running, so no worker thread is the writer.
C16_HealthWrittenAfterJoin ==
    [][probe_states' # probe_states =>
          \A c \in Callers, p \in Probes : ~InFlight(sess[c][p])]_vars

\* C17: no two sessions use the same probe's serial port at the same time:
\* each probe has at most one session in flight in every reachable state.
C17_OneSessionPerProbe ==
    \A p \in Probes : Cardinality({c \in Callers : InFlight(sess[c][p])}) <= 1

\* C18: a session whose identify response is empty or lacks the marker ends
\* at once: it goes on to no M0, M1 or D command in that cycle and no reading
\* is stored for the probe.
C18_IdentifyFailureEndsSession ==
    [][\A c \in Callers, p \in Probes :
          LET s == sess[c][p]
              t == sess'[c][p]
          IN  /\ (s.pc = "ident" /\ t # s /\ ~Contains(t.response, MARKER))
                 => (t.pc = "raised" /\ readings' = readings)
              /\ (s.pc = "raised" /\ s.at = "ident")
                 => (t.pc \in {"raised", "none"} /\ IndexOf(readings', p) = 0)]_vars

\* C18's case: the probe answered 0I! with a line without the marker, the
\* session has ended and the cycle's buffer holds no reading.
C18_Witness ==
    \E c \in Callers, p \in Probes :
        /\ cycle[c] = "running"
        /\ sess[c][p].pc = "raised"
        /\ sess[c][p].at = "ident"
        /\ sess[c][p].response = rstrip(ID_BAD)
        /\ readings = <<>>

\* C19: an error in the moisture phase (a rejected value, an early empty D
\* response, a count mismatch) does not stop the session: the moisture loop
\* ends at the M1 command, the M1 response alone decides whether the
\* temperature D commands follow, the moisture error is kept to the end, and
\* the state set is Protocol Error exactly when one of the two phases had an
\* error, Ready otherwise.
C19_MoistureErrorDoesNotStop ==
    [][\A c \in Callers, p \in Probes :
          LET s == sess[c][p]
              t == sess'[c][p]
          IN  /\ (s.pc = "dm" /\ t # s) => t.pc \in {"dm", "m1"}
              /\ (s.pc = "m1" /\ t # s) =>
                    /\ t.pc = "raised" <=> ~MParses(t.response)
                    /\ (MParses(t.response) /\ MNumSensors(t.response) > 0)
                          => t.pc = "dt"
              /\ (s.pc \in {"m1", "dt"} /\ t.pc \in {"dt", "fin"})
                    => t.moisture_error = s.moisture_error
              /\ (s.pc = "fin" /\ t.pc = "done") =>
                    probe_states'[p] =
                        (IF s.moisture_error \/ s.temp_error THEN "False" ELSE "True")]_vars

\* C19's case: the moisture phase had an error, the temperature phase ran
\* without one, and the session has set Protocol Error.
C19_Witness ==
    \E c \in Callers, p \in Probes :
        /\ sess[c][p].pc = "done"
        /\ sess[c][p].moisture_error
        /\ Len(sess[c][p].moisture_values) = 2
        /\ ~sess[c][p].temp_error
        /\ sess[c][p].temperature_values # <<>>
        /\ probe_states[p] = "False"

\* C20: the notification of a cycle is produced only after every worker
\* spawned for that cycle has ended, and it holds only readings that the
\* sessions of that cycle produced.
C20_FanInBarrier ==
    [][\A c \in Callers :
          CycleNotifies(c) =>
              /\ \A p \in Range(ports) : ~InFlight(sess[c][p])
              /\ \A i \in 1..Len(signals') :
                     /\ sess[c][signals'[i].name].pc = "done"
                     /\ signals'[i] = ReadingOf(signals'[i].name,
                                                sess[c][signals'[i].name])]_vars

\* The entry of a probe in the readings buffer, as a list of none or one.
EntryOf(d, name) == IF IndexOf(d, name) = 0 THEN <<>> ELSE <<d[IndexOf(d, name)]>>

\* C21: fault isolation per probe: however the session of one probe ends
\* (the port does not open, identify fails, a measurement response does not
\* parse, values are rejected, or all is in order), it leaves the session,
\* the health entry and the reading of every other probe as they are; a
\* session that reaches its end sets the outcome and stores the reading that
\* its own answers give; and once every worker has ended, failed or not,
\* the cycle can notify, with the signals built from the buffer.
C21_FaultIsolation ==
    /\ [](\A c \in Callers :
             (cycle[c] = "running" /\ \A p \in Range(ports) : ~InFlight(sess[c][p]))
             => ENABLED (Join(c) /\ cycle_exit' = "notified"))
    /\ [][/\ \A c \in Callers, p \in Probes, q \in Probes :
               (p # q /\ InFlight(sess[c][p]) /\ ~InFlight(sess'[c][p])) =>
                   /\ sess'[c][q] = sess[c][q]
                   /\ probe_states'[q] = probe_states[q]
                   /\ EntryOf(readings', q) = EntryOf(readings, q)
          /\ \A c \in Callers, q \in Probes :
               (InFlight(sess[c][q]) /\ sess'[c][q].pc = "done") =>
                   /\ probe_states'[q] = OutcomeOf(sess'[c][q])
                   /\ EntryOf(readings', q) = <<ReadingOf(q, sess'[c][q])>>
          /\ \A c \in Callers :
               CycleNotifies(c) => signals' = SignalList(readings)]_vars

\* C21's case: in a cycle over two probes the session of the first probe
\* failed and never set a state, the session of the second set Ready, and
\* the cycle notified the reading of the second alone.
C21_Witness ==
    /\ cycle_exit = "notified"
    /\ Len(ports) = 2
    /\ probe_states[ports[1]] = "absent"
    /\ probe_states[ports[2]] = "True"
    /\ Len(signals) = 1
    /\ signals[1].name = ports[2]
    /\ signals[1].moisture_values # <<>>

\* C22: the delay of the M1 response is honoured: when it is greater than 0
\* the session waits for the attention response before the first
\* temperature D command, as after M0; when it is 0 the D commands follow
\* at once.
C22_M1DelayHonoured ==
    [][\A c \in Callers, p \in Probes :
          LET s == sess[c][p]
              t == sess'[c][p]
          IN  (s.pc = "m1" /\ t # s /\ MParses(t.response)) =>
                 IF MDelay(t.response) > 0
                 THEN t.pc \in {"sleep", "attn"}
                 ELSE t.pc \in {"dt", "fin"}]_vars

====
